---- MODULE Spec2Model ----
(***************************************************************************)
(* Ad Performance Aggregator (src/ad_performance_aggregator/src/main.rs).  *)
(*                                                                         *)
(* One run of the program: open the input, stream the rows into the        *)
(* aggregation HashMap, take the accumulators out of the map, sort them by *)
(* CTR, write top10_ctr.csv, filter and sort them by CPA, write            *)
(* top10_cpa.csv, exit.                                                    *)
(*                                                                         *)
(* Numbers.  u64 fields are kept modulo 2^U64Bits.  f64 values are kept as *)
(* reduced fractions with a NaN flag; f64 addition rounds its result to    *)
(* MantBits significant bits, ties to even (IEEE 754 round-to-nearest).    *)
(* The quotients clicks/impressions and spend/conversions are kept exact:  *)
(* for the totals of the model distinct fractions are distinct doubles, so *)
(* comparing the doubles is comparing the fractions.                       *)
(***************************************************************************)
EXTENDS Bags, FiniteSets, Integers, Sequences, TLC

\* ------------------------------------------------------------------------
\* Bounds and program constants
\* ------------------------------------------------------------------------

\* take(10)
TopN == 10

\* width of the u64 fields in the model (64 in the program)
U64Bits == 2

\* significant bits of an f64 in the model (53 in the program)
MantBits == 2

\* distinct campaign ids the free rows of an input draw from
NumCampaigns == 3

\* free rows of an input
MaxRows == 3

\* free rows of a wide input
WideFree == 2

\* rotations of the key order a HashMap iteration may start from
HashSeeds == 3

RECURSIVE Pow2(_)
Pow2(n) == IF n = 0 THEN 1 ELSE 2 * Pow2(n - 1)

U64Modulus == Pow2(U64Bits)

U64Max == U64Modulus - 1

\* campaigns of a fixed shape that precede the free rows of a wide input
WideFill == TopN - 1

\* ------------------------------------------------------------------------
\* f64
\* ------------------------------------------------------------------------

RECURSIVE GCD(_, _)
GCD(a, b) == IF b = 0 THEN a ELSE GCD(b, a % b)

\* the double num/den
F(num, den) ==
    LET g == GCD(num, den)
    IN  [nan |-> FALSE, num |-> num \div g, den |-> den \div g]

NaN == [nan |-> TRUE, num |-> 0, den |-> 1]

RECURSIVE ExpOf(_)
ExpOf(x) == IF x < Pow2(MantBits) THEN 0 ELSE 1 + ExpOf(x \div 2)

\* round a non-negative integer to MantBits significant bits, ties to even
RoundF(x) ==
    LET e == ExpOf(x)
        u == Pow2(e)
        q == x \div u
        r == x % u
        up == (2 * r > u) \/ (2 * r = u /\ q % 2 = 1)
    IN  IF up THEN (q + 1) * u ELSE q * u

\* f64 `+` on the spend values (whole numbers of the unit)
FAdd(x, y) ==
    IF x.nan \/ y.nan THEN NaN ELSE F(RoundF(x.num + y.num), 1)

\* f64 `/` with a u64 divisor converted by `as f64`
FDiv(x, n) ==
    IF x.nan THEN NaN ELSE F(x.num, x.den * n)

FLess(x, y) == ~x.nan /\ ~y.nan /\ x.num * y.den < y.num * x.den

\* f64::partial_cmp
PartialCmp(x, y) ==
    IF x.nan \/ y.nan THEN "None"
    ELSE IF FLess(x, y) THEN "Less"
    ELSE IF FLess(y, x) THEN "Greater"
    ELSE "Equal"

\* Option<Ordering>::unwrap_or
UnwrapOr(o, default) == IF o = "None" THEN default ELSE o

\* Option<f64>
NoneF == [some |-> FALSE, val |-> F(0, 1)]
SomeF(x) == [some |-> TRUE, val |-> x]

\* ------------------------------------------------------------------------
\* Input rows
\* ------------------------------------------------------------------------

CampaignIds == 1 .. NumCampaigns

AdRecord(id, imp, clk, spend, conv) ==
    [campaign_id |-> id, impressions |-> imp, clicks |-> clk,
     spend |-> spend, conversions |-> conv]

\* the values a free row may carry: no impressions and no conversions;
\* CTR 1/2 and CPA 1; CTR 1 and CPA 4; a spend cell reading "NaN";
\* the largest impression count, no clicks, no conversions
RowShapes(id) ==
    { AdRecord(id, 0, 0, F(1, 1), 0),
      AdRecord(id, 2, 1, F(1, 1), 1),
      AdRecord(id, 1, 1, F(4, 1), 1),
      AdRecord(id, 2, 1, NaN, 1),
      AdRecord(id, U64Max, 0, F(4, 1), 0) }

FreeRows == UNION { RowShapes(id) : id \in CampaignIds }

\* the i-th filler row of a wide input: a campaign of its own, CTR 1, CPA 4
FillRow(i) == AdRecord(NumCampaigns + i, 1, 1, F(4, 1), 1)

\* ------------------------------------------------------------------------
\* CampaignAggregation
\* ------------------------------------------------------------------------

New(record) ==
    [campaign_id |-> record.campaign_id,
     total_impressions |-> record.impressions,
     total_clicks |-> record.clicks,
     total_spend |-> record.spend,
     total_conversions |-> record.conversions]

\* u64 `+=` of a build without overflow checks
WrapAdd(a, b) == (a + b) % U64Modulus

Overflows(a, b) == a + b > U64Max

Add(agg, record) ==
    [agg EXCEPT
       !.total_impressions = WrapAdd(@, record.impressions),
       !.total_clicks = WrapAdd(@, record.clicks),
       !.total_spend = FAdd(@, record.spend),
       !.total_conversions = WrapAdd(@, record.conversions)]

\* some `+=` of add overflows its u64
AddOverflows(agg, record) ==
    \/ Overflows(agg.total_impressions, record.impressions)
    \/ Overflows(agg.total_clicks, record.clicks)
    \/ Overflows(agg.total_conversions, record.conversions)

Ctr(agg) ==
    IF agg.total_impressions = 0 THEN NoneF
    ELSE SomeF(F(agg.total_clicks, agg.total_impressions))

Cpa(agg) ==
    IF agg.total_conversions = 0 THEN NoneF
    ELSE SomeF(FDiv(agg.total_spend, agg.total_conversions))

\* aggregations.entry(id).and_modify(add).or_insert(new)
Upsert(table, record) ==
    LET id == record.campaign_id
    IN  IF id \in DOMAIN table
        THEN [table EXCEPT ![id] = Add(@, record)]
        ELSE [k \in DOMAIN table \cup {id} |->
                 IF k = id THEN New(record) ELSE table[k]]

EmptyTable == [k \in {} |-> 0]

\* ------------------------------------------------------------------------
\* Ranker
\* ------------------------------------------------------------------------

\* CmpCtr with the operands of partial_cmp in the order of an ascending sort
CmpCtrAscending(a, b) ==
    LET ca == Ctr(a)
        cb == Ctr(b)
    IN  IF ca.some /\ cb.some THEN UnwrapOr(PartialCmp(ca.val, cb.val), "Equal")
        ELSE IF ca.some /\ ~cb.some THEN "Less"
        ELSE IF ~ca.some /\ cb.some THEN "Greater"
        ELSE "Equal"

\* the closure of campaigns.sort_by: CTR descending, no impressions last
CmpCtr(a, b) ==
    LET ca == Ctr(a)
        cb == Ctr(b)
    IN  IF ca.some /\ cb.some THEN UnwrapOr(PartialCmp(cb.val, ca.val), "Equal")
        ELSE IF ca.some /\ ~cb.some THEN "Less"
        ELSE IF ~ca.some /\ cb.some THEN "Greater"
        ELSE "Equal"

\* the closure of campaigns_with_conversions.sort_by: CPA ascending
CmpCpa(a, b) ==
    LET ca == Cpa(a)
        cb == Cpa(b)
    IN  IF ca.some /\ cb.some THEN UnwrapOr(PartialCmp(ca.val, cb.val), "Equal")
        ELSE "Equal"

Compare(kind, a, b) == IF kind = "ctr" THEN CmpCtr(a, b) ELSE CmpCpa(a, b)

\* sort_by hands the sort `is_less = |a, b| compare(a, b) == Less`
IsLess(kind, a, b) == Compare(kind, a, b) = "Less"

Front(s) == SubSeq(s, 1, Len(s) - 1)

\* slice::sort_by on a slice of at most 20 elements is an insertion sort.
\* insert_tail: move x left past every element it is less than.
RECURSIVE InsertTail(_, _, _)
InsertTail(kind, sorted, x) ==
    IF sorted # <<>> /\ IsLess(kind, x, sorted[Len(sorted)])
    THEN Append(InsertTail(kind, Front(sorted), x), sorted[Len(sorted)])
    ELSE Append(sorted, x)

\* insertion_sort_shift_left: insert v[1], v[2], ... into the sorted prefix
RECURSIVE InsertionSortShiftLeft(_, _)
InsertionSortShiftLeft(kind, v) ==
    IF v = <<>> THEN <<>>
    ELSE InsertTail(kind, InsertionSortShiftLeft(kind, Front(v)), v[Len(v)])

\* insert_head: move x right past every element that is less than it
RECURSIVE InsertHead(_, _, _)
InsertHead(kind, x, sorted) ==
    IF sorted # <<>> /\ IsLess(kind, Head(sorted), x)
    THEN <<Head(sorted)>> \o InsertHead(kind, x, Tail(sorted))
    ELSE <<x>> \o sorted

\* the short-slice path of the merge sort of older toolchains: insert
\* v[len-2], v[len-3], ... into the sorted suffix
RECURSIVE InsertionSortInsertHead(_, _)
InsertionSortInsertHead(kind, v) ==
    IF v = <<>> THEN <<>>
    ELSE InsertHead(kind, Head(v), InsertionSortInsertHead(kind, Tail(v)))

\* what sort_by may leave in the slice: both insertion sorts agree whenever
\* the closure is a total preorder, and may differ when it is not
SortBy(kind, v) ==
    { InsertionSortShiftLeft(kind, v), InsertionSortInsertHead(kind, v) }

\* iter().take(n)
Take(v, n) == SubSeq(v, 1, IF Len(v) < n THEN Len(v) ELSE n)

\* FilterConversions without the filter
FilterConversionsKeepsAll(v) == v

\* iter().filter(|c| c.total_conversions > 0)
RECURSIVE FilterConversions(_)
FilterConversions(v) ==
    IF v = <<>> THEN <<>>
    ELSE IF Head(v).total_conversions > 0
         THEN <<Head(v)>> \o FilterConversions(Tail(v))
         ELSE FilterConversions(Tail(v))

\* ------------------------------------------------------------------------
\* HashMap iteration order
\* ------------------------------------------------------------------------

RECURSIVE Ascending(_)
Ascending(keys) ==
    IF keys = {} THEN <<>>
    ELSE LET m == CHOOSE k \in keys : \A j \in keys : k <= j
         IN  <<m>> \o Ascending(keys \ {m})

Rotate(s, r) ==
    IF s = <<>> THEN s
    ELSE [i \in 1 .. Len(s) |-> s[((i - 1 + r) % Len(s)) + 1]]

Reverse(s) == [i \in 1 .. Len(s) |-> s[Len(s) + 1 - i]]

\* the orders in which into_values may yield the entries: the order depends
\* on the map's RandomState, which differs from one process to the next
IterOrders(keys) ==
    LET asc == Ascending(keys)
    IN  UNION { {Rotate(asc, r), Reverse(Rotate(asc, r))} :
                r \in 0 .. HashSeeds - 1 }

IntoValues(table, order) == [i \in 1 .. Len(order) |-> table[order[i]]]

\* ------------------------------------------------------------------------
\* Report Writer
\* ------------------------------------------------------------------------

HeaderLine ==
    [kind |-> "header",
     cols |-> <<"campaign_id", "impressions", "clicks", "spend",
                "conversions", "ctr", "cpa">>]

\* ctr: campaign.ctr().unwrap_or(0.0)
CtrCell(c) == IF Ctr(c).some THEN Ctr(c).val ELSE F(0, 1)

\* cpa: campaign.cpa(); None serializes as an empty cell
CpaCell(c) == Cpa(c)

CampaignOutput(c) ==
    [kind |-> "row",
     campaign_id |-> c.campaign_id,
     impressions |-> c.total_impressions,
     clicks |-> c.total_clicks,
     spend |-> c.total_spend,
     conversions |-> c.total_conversions,
     ctr |-> CtrCell(c),
     cpa |-> CpaCell(c)]

\* what the csv writer has emitted after serialize() was called for each
\* campaign: the writer emits the header in the first serialize() call
ReportLines(view) ==
    IF view = <<>> THEN <<>>
    ELSE <<HeaderLine>> \o [i \in 1 .. Len(view) |-> CampaignOutput(view[i])]

\* a file this run has neither created nor truncated
NotWritten == [written |-> FALSE, lines |-> <<>>, flushed |-> FALSE]

Written(lines, flushed) ==
    [written |-> TRUE, lines |-> lines, flushed |-> flushed]

\* the outcomes of write_ctr_report / write_cpa_report on a path this run
\* has not written yet: Ok with every line written and flushed; or an Err
\* from File::create (nothing on disk changes), from serialize or from
\* flush (the file exists and holds some prefix of the lines)
WriteOk(view) == Written(ReportLines(view), TRUE)

WriteErrs(view) ==
    {NotWritten} \cup
    { Written(SubSeq(ReportLines(view), 1, k), FALSE) :
        k \in 0 .. Len(ReportLines(view)) }

\* ------------------------------------------------------------------------
\* State
\* ------------------------------------------------------------------------

VARIABLES
    pc,            \* where run() is
    fill,          \* filler campaigns at the head of the input (its shape)
    input_read,    \* the rows read and folded so far, as a bag
    aggregations,  \* HashMap<String, CampaignAggregation>
    line_count,    \* rows folded
    campaigns,     \* Vec<CampaignAggregation> taken out of the map
    cpa_view,      \* campaigns_with_conversions
    ctr_file,      \* top10_ctr.csv
    cpa_file,      \* top10_cpa.csv
    error,         \* the Err a step of run() met, "" if none
    stderr,        \* what the process printed on stderr, "" if nothing
    exit_code      \* exit status of the process, -1 while it runs

vars == <<pc, fill, input_read, aggregations, line_count, campaigns,
          cpa_view, ctr_file, cpa_file, error, stderr, exit_code>>

InitWith(f) ==
    /\ pc = "open"
    /\ fill = f
    /\ input_read = EmptyBag
    /\ aggregations = EmptyTable
    /\ line_count = 0
    /\ campaigns = <<>>
    /\ cpa_view = <<>>
    /\ ctr_file = NotWritten
    /\ cpa_file = NotWritten
    /\ error = ""
    /\ stderr = ""
    /\ exit_code = -1

\* an input of at most MaxRows rows
Init == InitWith(0)

\* an input of WideFill single-row campaigns followed by at most WideFree rows
InitWide == InitWith(WideFill)

\* the number of free rows an input of this shape may hold
FreeLimit == IF fill = 0 THEN MaxRows ELSE WideFree

\* the rows the input may hold at the reader's position
NextRows ==
    IF line_count < fill THEN {FillRow(line_count + 1)}
    ELSE IF line_count - fill < FreeLimit THEN FreeRows
    ELSE {}

\* run() returns Err(e): main prints it and exits with status 1
Fail(kind) ==
    /\ pc' = "failed"
    /\ error' = kind
    /\ stderr' = "Error"
    /\ exit_code' = 1

\* ------------------------------------------------------------------------
\* Steps of run()
\* ------------------------------------------------------------------------

\* File::open(&args.input)? succeeds
OpenInput ==
    /\ pc = "open"
    /\ pc' = "reading"
    /\ UNCHANGED <<fill, input_read, aggregations, line_count, campaigns,
                   cpa_view, ctr_file, cpa_file, error, stderr, exit_code>>

\* File::open(&args.input)? fails
OpenFail ==
    /\ pc = "open"
    /\ Fail("open")
    /\ UNCHANGED <<fill, input_read, aggregations, line_count, campaigns,
                   cpa_view, ctr_file, cpa_file>>

\* one iteration of the loop: the row deserializes and is folded
ReadRow ==
    /\ pc = "reading"
    /\ \E record \in NextRows :
         /\ aggregations' = Upsert(aggregations, record)
         /\ input_read' = input_read (+) SetToBag({record})
    /\ line_count' = line_count + 1
    /\ UNCHANGED <<pc, fill, campaigns, cpa_view, ctr_file, cpa_file,
                   error, stderr, exit_code>>

\* one iteration of the loop in a build with overflow checks: a `+=` of add
\* overflows and the process panics
ReadRowPanic ==
    /\ pc = "reading"
    /\ \E record \in NextRows :
         /\ record.campaign_id \in DOMAIN aggregations
         /\ AddOverflows(aggregations[record.campaign_id], record)
    /\ pc' = "panicked"
    /\ stderr' = "panic"
    /\ exit_code' = 101
    /\ UNCHANGED <<fill, input_read, aggregations, line_count, campaigns,
                   cpa_view, ctr_file, cpa_file, error>>

\* ParseFail with the Err logged and the row skipped instead of `?`
ParseFailSkipsRow ==
    /\ pc = "reading"
    /\ error' = "parse"
    /\ stderr' = "Error"
    /\ UNCHANGED <<pc, fill, input_read, aggregations, line_count, campaigns,
                   cpa_view, ctr_file, cpa_file, exit_code>>

\* one iteration of the loop: `result?` is an Err (a missing column, a field
\* that fails its numeric conversion, a read error)
ParseFail ==
    /\ pc = "reading"
    /\ Fail("parse")
    /\ UNCHANGED <<fill, input_read, aggregations, line_count, campaigns,
                   cpa_view, ctr_file, cpa_file>>

\* the loop ends; aggregations.into_values().collect()
CollectCampaigns ==
    /\ pc = "reading"
    /\ line_count >= fill
    /\ \E order \in IterOrders(DOMAIN aggregations) :
         campaigns' = IntoValues(aggregations, order)
    /\ pc' = "collected"
    /\ UNCHANGED <<fill, input_read, aggregations, line_count, cpa_view,
                   ctr_file, cpa_file, error, stderr, exit_code>>

\* campaigns.sort_by(CTR)
SortByCtr ==
    /\ pc = "collected"
    /\ campaigns' \in SortBy("ctr", campaigns)
    /\ pc' = "ctr_sorted"
    /\ UNCHANGED <<fill, input_read, aggregations, line_count, cpa_view,
                   ctr_file, cpa_file, error, stderr, exit_code>>

\* write_ctr_report(&ctr_path, &top10_ctr)? returns Ok
WriteCtrReport ==
    /\ pc = "ctr_sorted"
    /\ ctr_file' = WriteOk(Take(campaigns, TopN))
    /\ pc' = "ctr_written"
    /\ UNCHANGED <<fill, input_read, aggregations, line_count, campaigns,
                   cpa_view, cpa_file, error, stderr, exit_code>>

\* write_ctr_report(&ctr_path, &top10_ctr)? returns Err
WriteCtrReportFail ==
    /\ pc = "ctr_sorted"
    /\ ctr_file' \in WriteErrs(Take(campaigns, TopN))
    /\ Fail("io")
    /\ UNCHANGED <<fill, input_read, aggregations, line_count, campaigns,
                   cpa_view, cpa_file>>

\* filter(total_conversions > 0), then sort_by(CPA)
SortByCpa ==
    /\ pc = "ctr_written"
    /\ cpa_view' \in SortBy("cpa", FilterConversions(campaigns))
    /\ pc' = "cpa_sorted"
    /\ UNCHANGED <<fill, input_read, aggregations, line_count, campaigns,
                   ctr_file, cpa_file, error, stderr, exit_code>>

\* write_cpa_report(&cpa_path, &top10_cpa)? returns Ok; run returns Ok(())
\* and main returns: exit status 0
WriteCpaReport ==
    /\ pc = "cpa_sorted"
    /\ cpa_file' = WriteOk(Take(cpa_view, TopN))
    /\ pc' = "done"
    /\ exit_code' = 0
    /\ UNCHANGED <<fill, input_read, aggregations, line_count, campaigns,
                   cpa_view, ctr_file, error, stderr>>

\* WriteCpaReportFail with the Err of write_cpa_report dropped
WriteCpaReportFailIgnored ==
    /\ pc = "cpa_sorted"
    /\ cpa_file' \in WriteErrs(Take(cpa_view, TopN))
    /\ pc' = "done"
    /\ exit_code' = 0
    /\ UNCHANGED <<fill, input_read, aggregations, line_count, campaigns,
                   cpa_view, ctr_file, error, stderr>>

\* write_cpa_report(&cpa_path, &top10_cpa)? returns Err
WriteCpaReportFail ==
    /\ pc = "cpa_sorted"
    /\ cpa_file' \in WriteErrs(Take(cpa_view, TopN))
    /\ Fail("io")
    /\ UNCHANGED <<fill, input_read, aggregations, line_count, campaigns,
                   cpa_view, ctr_file>>

Next ==
    \/ OpenInput
    \/ OpenFail
    \/ ReadRow
    \/ ReadRowPanic
    \/ ParseFail
    \/ CollectCampaigns
    \/ SortByCtr
    \/ WriteCtrReport
    \/ WriteCtrReportFail
    \/ SortByCpa
    \/ WriteCpaReport
    \/ WriteCpaReportFail

Spec == Init /\ [][Next]_vars

SpecWide == InitWide /\ [][Next]_vars

\* ------------------------------------------------------------------------
\* Reading the state
\* ------------------------------------------------------------------------

\* the loop of run() has ended without an error
StreamingPassDone ==
    pc \in {"collected", "ctr_sorted", "ctr_written", "cpa_sorted", "done"}
    \/ (pc = "failed" /\ error = "io")

InputRows == BagToSet(input_read)

\* every spend cell read so far is a non-negative real number
ValidInput == \A r \in InputRows : ~r.spend.nan

RECURSIVE SumOver(_, _)
SumOver(rows, field) ==
    IF rows = {} THEN 0
    ELSE LET r == CHOOSE x \in rows : TRUE
         IN  CopiesIn(r, input_read) * r[field] + SumOver(rows \ {r}, field)

RowsOf(id) == { r \in InputRows : r.campaign_id = id }

\* the sum of a u64 field over the rows of a campaign, in the integers
ExactSum(id, field) == SumOver(RowsOf(id), field)

RECURSIVE SpendOver(_)
SpendOver(rows) ==
    IF rows = {} THEN 0
    ELSE LET r == CHOOSE x \in rows : TRUE
         IN  CopiesIn(r, input_read) * r.spend.num + SpendOver(rows \ {r})

\* the sum of the spend of the rows of a campaign, in the reals
ExactSpend(id) == F(SpendOver(RowsOf(id)), 1)

\* the rows read, in every order
Arrangements ==
    LET n == BagCardinality(input_read)
    IN  { s \in [1 .. n -> InputRows] :
            \A r \in InputRows :
              Cardinality({ i \in 1 .. n : s[i] = r }) = CopiesIn(r, input_read) }

\* the table the loop builds from a sequence of rows
RECURSIVE FoldAll(_)
FoldAll(rows) ==
    IF rows = <<>> THEN EmptyTable
    ELSE Upsert(FoldAll(Front(rows)), rows[Len(rows)])

\* ------------------------------------------------------------------------
\* C1
\* ------------------------------------------------------------------------

\* C1: after the streaming pass over a valid input the table has exactly
\* one accumulator per campaign_id of the input, each total is the sum of
\* its field over the rows of that campaign, and every permutation of the
\* rows yields the same table.
C1_ExactTotals ==
    (StreamingPassDone /\ ValidInput) =>
        /\ DOMAIN aggregations = { r.campaign_id : r \in InputRows }
        /\ \A id \in DOMAIN aggregations :
             /\ aggregations[id].campaign_id = id
             /\ aggregations[id].total_impressions = ExactSum(id, "impressions")
             /\ aggregations[id].total_clicks = ExactSum(id, "clicks")
             /\ aggregations[id].total_conversions = ExactSum(id, "conversions")
             /\ aggregations[id].total_spend = ExactSpend(id)
        /\ \A s \in Arrangements : FoldAll(s) = aggregations

\* ------------------------------------------------------------------------
\* C10
\* ------------------------------------------------------------------------

\* no total of accumulator b is smaller than the same total of a
TotalsNotSmaller(a, b) ==
    /\ b.total_impressions >= a.total_impressions
    /\ b.total_clicks >= a.total_clicks
    /\ b.total_conversions >= a.total_conversions
    /\ ~FLess(b.total_spend, a.total_spend)

\* C10: at every step of the streaming pass over non-negative inputs an
\* accumulator is never removed, keeps its campaign_id equal to its key,
\* none of its totals gets smaller, a fold changes the accumulator of one
\* campaign_id only, and line_count is the number of rows folded.
C10_MonotoneTable ==
    [][(pc = "reading" /\ pc' = "reading" /\ ValidInput') =>
         /\ \A id \in DOMAIN aggregations :
              /\ id \in DOMAIN aggregations'
              /\ aggregations'[id].campaign_id = id
              /\ TotalsNotSmaller(aggregations[id], aggregations'[id])
         /\ \E id \in DOMAIN aggregations' :
              \A k \in DOMAIN aggregations \ {id} :
                aggregations'[k] = aggregations[k]
         /\ line_count' = BagCardinality(input_read')]_vars

\* ------------------------------------------------------------------------
\* Reading the reports
\* ------------------------------------------------------------------------

IsRow(l) == l.kind = "row"

\* the data rows of a report file
DataRows(file) == SelectSeq(file.lines, IsRow)

\* a file written to its end and flushed
Complete(file) == file.written /\ file.flushed

\* the row of a campaign with impressions > 0
CtrDefined(row) == row.impressions > 0

\* the CTR of row a is strictly higher than the CTR of row b (both defined)
CtrHigher(a, b) == a.clicks * b.impressions > b.clicks * a.impressions

IdsIn(file) == { DataRows(file)[i].campaign_id : i \in 1 .. Len(DataRows(file)) }

Min(a, b) == IF a < b THEN a ELSE b

\* ------------------------------------------------------------------------
\* C2
\* ------------------------------------------------------------------------

\* C2: the rows of top10_ctr.csv are in descending order of CTR among the
\* campaigns with impressions > 0, every campaign with zero impressions
\* comes after every campaign with a defined CTR, and no campaign_id is in
\* two rows.
C2_CtrReportOrdered ==
    LET rows == DataRows(ctr_file)
    IN  \A i \in 1 .. Len(rows) : \A j \in 1 .. Len(rows) :
          i < j =>
            /\ (CtrDefined(rows[i]) /\ CtrDefined(rows[j]))
                 => ~CtrHigher(rows[j], rows[i])
            /\ ~(~CtrDefined(rows[i]) /\ CtrDefined(rows[j]))
            /\ rows[i].campaign_id # rows[j].campaign_id

\* a finished CTR report of three campaigns: two distinct defined CTRs and a
\* campaign without impressions, taken out of the map in another order
C2_Witness ==
    LET rows == DataRows(ctr_file)
    IN  /\ Complete(ctr_file)
        /\ Len(rows) = 3
        /\ CtrDefined(rows[1]) /\ CtrDefined(rows[2]) /\ ~CtrDefined(rows[3])
        /\ CtrHigher(rows[1], rows[2])
        /\ pc = "ctr_written"
        /\ \E order \in IterOrders(DOMAIN aggregations) :
             /\ order[1] = rows[3].campaign_id
             /\ order[2] = rows[2].campaign_id

\* ------------------------------------------------------------------------
\* C3
\* ------------------------------------------------------------------------

\* C3: top10_cpa.csv has no campaign with total_conversions = 0 and its rows
\* are in ascending order of total_spend / total_conversions.
C3_CpaReportOrdered ==
    LET rows == DataRows(cpa_file)
    IN  /\ \A i \in 1 .. Len(rows) : rows[i].conversions # 0
        /\ \A i \in 1 .. Len(rows) : \A j \in 1 .. Len(rows) :
             i < j => ~FLess(rows[j].cpa.val, rows[i].cpa.val)

\* ------------------------------------------------------------------------
\* C4
\* ------------------------------------------------------------------------

Accumulators == { aggregations[id] : id \in DOMAIN aggregations }

Qualifying == { a \in Accumulators : a.total_conversions > 0 }

\* C4: each report has min(10, q) data rows, q the number of qualifying
\* accumulators; no campaign left out of the CTR report has a strictly
\* higher defined CTR than one in it, and no qualifying campaign left out
\* of the CPA report has a strictly lower CPA than one in it.
C4_BestRowsKept ==
    /\ Complete(ctr_file) =>
         /\ Len(DataRows(ctr_file)) = Min(TopN, Cardinality(Accumulators))
         /\ \A a \in Accumulators : \A i \in 1 .. Len(DataRows(ctr_file)) :
              (a.campaign_id \notin IdsIn(ctr_file) /\ Ctr(a).some) =>
                /\ CtrDefined(DataRows(ctr_file)[i])
                /\ ~FLess(DataRows(ctr_file)[i].ctr, Ctr(a).val)
    /\ Complete(cpa_file) =>
         /\ Len(DataRows(cpa_file)) = Min(TopN, Cardinality(Qualifying))
         /\ \A a \in Qualifying : \A i \in 1 .. Len(DataRows(cpa_file)) :
              a.campaign_id \notin IdsIn(cpa_file) =>
                ~FLess(Cpa(a).val, DataRows(cpa_file)[i].cpa.val)

\* ------------------------------------------------------------------------
\* C5
\* ------------------------------------------------------------------------

\* the report files a run over the same table may finish with
PossibleReports ==
    { <<WriteOk(Take(c, TopN)), WriteOk(Take(v, TopN))>> :
        <<c, v>> \in UNION { UNION { { <<s, t>> :
                        t \in SortBy("cpa", FilterConversions(s)) } :
                    s \in SortBy("ctr", IntoValues(aggregations, order)) } :
                order \in IterOrders(DOMAIN aggregations) } }

\* C5: two runs over the same input end with the same two files: the order
\* in which the accumulators leave the map has no influence on the output.
C5_OutputDeterministic ==
    pc = "done" => PossibleReports = { <<ctr_file, cpa_file>> }

\* ------------------------------------------------------------------------
\* C6
\* ------------------------------------------------------------------------

\* C6: a row that fails to parse ends the run at that row: the run has
\* failed with exit status 1, the row is not folded and not skipped, no
\* later row is read or folded, neither report file is created; and a
\* report file exists only after every row was parsed and folded.
C6_ParseFailureAborts ==
    [][/\ error' = "parse" =>
            /\ pc' = "failed"
            /\ exit_code' = 1
            /\ ~ctr_file'.written /\ ~cpa_file'.written
            /\ aggregations' = aggregations
            /\ line_count' = line_count
            /\ input_read' = input_read
       /\ error = "parse" => UNCHANGED vars
       /\ (ctr_file'.written \/ cpa_file'.written) =>
            /\ StreamingPassDone'
            /\ line_count' = BagCardinality(input_read')]_vars

\* the run has failed on a row after folding two rows
C6_Witness ==
    /\ error = "parse"
    /\ pc = "failed"
    /\ line_count = 2
    /\ Cardinality(DOMAIN aggregations) = 2

\* ------------------------------------------------------------------------
\* C7
\* ------------------------------------------------------------------------

HasHeader(file) ==
    /\ file.lines # <<>>
    /\ file.lines[1].kind = "header"
    /\ file.lines[1].cols = <<"campaign_id", "impressions", "clicks",
                              "spend", "conversions", "ctr", "cpa">>
    /\ \A i \in 2 .. Len(file.lines) : IsRow(file.lines[i])
    /\ Len(file.lines) - 1 <= TopN

\* C7: after a successful run each of the two files begins with the header
\* row, followed by at most 10 data rows, also when it has no data row.
C7_HeaderAlways ==
    pc = "done" => (HasHeader(ctr_file) /\ HasHeader(cpa_file))

\* ------------------------------------------------------------------------
\* C8
\* ------------------------------------------------------------------------

ZeroCampaigns ==
    { a \in Accumulators :
        a.total_impressions = 0 /\ a.total_clicks = 0 /\ a.total_conversions = 0 }

\* the rows of the CTR report that hold campaign a come after every row
\* with a defined CTR, with the ctr cell 0 and the cpa cell empty
ZeroRowShape(a) ==
    LET rows == DataRows(ctr_file)
    IN  \A i \in 1 .. Len(rows) :
          rows[i].campaign_id = a.campaign_id =>
            /\ rows[i].ctr = F(0, 1)
            /\ ~rows[i].cpa.some
            /\ \A j \in 1 .. Len(rows) : CtrDefined(rows[j]) => j < i

\* C8: a campaign with impressions = 0, clicks = 0 and conversions = 0 is
\* in the CTR report, after the campaigns with a defined CTR, with ctr 0 and
\* an empty cpa cell, and it is not in the CPA report.
C8_ZeroCampaignReported ==
    pc = "done" =>
        \A a \in ZeroCampaigns :
          /\ a.campaign_id \in IdsIn(ctr_file)
          /\ ZeroRowShape(a)
          /\ a.campaign_id \notin IdsIn(cpa_file)

\* C8 as amended: such a campaign is in the CTR report whenever the input
\* has at most 10 campaigns and is not in it when 10 or more campaigns have
\* a defined CTR; where it is in the report it comes after the campaigns
\* with a defined CTR, with ctr 0 and an empty cpa cell; it is never in the
\* CPA report.
C8_ZeroCampaignWithinTop ==
    pc = "done" =>
        \A a \in ZeroCampaigns :
          /\ Cardinality(Accumulators) <= TopN
               => a.campaign_id \in IdsIn(ctr_file)
          /\ Cardinality({ b \in Accumulators : Ctr(b).some }) >= TopN
               => a.campaign_id \notin IdsIn(ctr_file)
          /\ ZeroRowShape(a)
          /\ a.campaign_id \notin IdsIn(cpa_file)

\* a finished run of 10 campaigns whose CTR report ends with a campaign
\* without impressions, clicks and conversions, and whose CPA report has rows
C8_Witness ==
    /\ pc = "done"
    /\ Len(DataRows(ctr_file)) = TopN
    /\ CtrDefined(DataRows(ctr_file)[TopN - 1])
    /\ \E a \in ZeroCampaigns :
         DataRows(ctr_file)[TopN].campaign_id = a.campaign_id
    /\ DataRows(cpa_file) # <<>>

\* ------------------------------------------------------------------------
\* C9
\* ------------------------------------------------------------------------

\* C9: exit status 0 only when top10_ctr.csv and then top10_cpa.csv were
\* created, written in full and flushed; every failure to open the input or
\* to write a report ends the run with a non-zero exit status and a message;
\* a failure in the CPA report is never a success.
C9_SuccessMeansBothWritten ==
    /\ exit_code = 0 =>
         /\ pc = "done" /\ error = ""
         /\ Complete(ctr_file)
         /\ ctr_file.lines = ReportLines(Take(campaigns, TopN))
         /\ Complete(cpa_file)
         /\ cpa_file.lines = ReportLines(Take(cpa_view, TopN))
    /\ cpa_file.written => Complete(ctr_file)
    /\ pc = "done" => exit_code = 0
    /\ error # "" => (pc = "failed" /\ exit_code = 1 /\ stderr = "Error")
    /\ (pc \in {"failed", "panicked"}) => (exit_code > 0 /\ stderr # "")

\* the CPA report failed half way after the CTR report was written
C9_Witness ==
    /\ error = "io"
    /\ exit_code = 1
    /\ Complete(ctr_file)
    /\ cpa_file.written /\ ~cpa_file.flushed
    /\ Len(cpa_file.lines) = 2

====
